---- MODULE Spec2Model ----
(***************************************************************************)
(* Model of waves-lease-canceller (src/canceller.go): one run of the       *)
(* command line tool that cancels every active lease of one account.       *)
(*                                                                         *)
(* The run is one thread of control (run, called by main) plus the         *)
(* interrupt listener that cancels the context handed to every node call.  *)
(* Every node call is modelled in two steps, its start and its return, so  *)
(* that the interrupt can fall before, during and after it.                *)
(*                                                                         *)
(* Abstractions:                                                           *)
(*  - a string parameter is the sequence of its whitespace-separated       *)
(*    fields plus whether it holds whitespace at all;                      *)
(*  - keys are small integers, an address is the pair (scheme, public key),*)
(*    a transaction id is the unsigned body it is the hash of;             *)
(*  - uint64 values are four 16-bit limbs, least significant first, so     *)
(*    that addition wraps exactly as the machine's does;                   *)
(*  - the timestamp of a transaction and the leased amounts (only logged)  *)
(*    are left out.                                                        *)
(***************************************************************************)
EXTENDS Integers, Sequences, FiniteSets, TLC

\* ------------------------------------------------------------------ bounds

\* most leases the node returns for the account
MaxLeases == 2

\* most status queries made for one transaction (the poll itself is unbounded)
MaxPolls == 2

\* ------------------------------------------------------------- constants

standardFee == 100000

errNil == "nil"
errInvalidParameters == "invalid parameters"
errUserTermination == "user termination"
errFailure == "operation failure"

\* process exit statuses: those of main's switch, and the Go runtime's status
\* for an unrecovered panic
ExitCodes == [ok |-> 0, invalid |-> 2, terminated |-> 130, failure |-> 70,
              unclassified |-> 1, panic |-> 2]

\* ------------------------------------------------------------ uint64

Limb == 2 ^ 16

\* a non-negative number below 2^31 as a uint64
U64(n) == << n % Limb, (n \div Limb) % Limb, 0, 0 >>

\* the limbs of a + b with unbounded width: five limbs, the last the carry out
ArithSum(a, b) ==
    LET c1 == (a[1] + b[1]) \div Limb
        c2 == (a[2] + b[2] + c1) \div Limb
        c3 == (a[3] + b[3] + c2) \div Limb
        c4 == (a[4] + b[4] + c3) \div Limb
    IN << (a[1] + b[1]) % Limb, (a[2] + b[2] + c1) % Limb,
          (a[3] + b[3] + c2) % Limb, (a[4] + b[4] + c3) % Limb, c4 >>

\* Go's + on uint64: the sum modulo 2^64
Add64(a, b) == SubSeq(ArithSum(a, b), 1, 4)

\* a uint64 seen as an unbounded number
Widen(a) == a \o << 0 >>

MaxU64 == << Limb - 1, Limb - 1, Limb - 1, Limb - 1 >>

\* 2^64 - 100000
WrapToZero == << Limb - 34464, Limb - 2, Limb - 1, Limb - 1 >>

\* values of the extraFee field of the node's scriptInfo answer
ExtraFees == { U64(0), U64(1), U64(400000), WrapToZero, MaxU64 }

\* fee := standardFee + leaseExtraFee
Fee(extra) == Add64(U64(standardFee), extra)

\* ------------------------------------------------------------ strings

Str(fields, ws) == [fields |-> fields, ws |-> ws]

IsEmpty(s) == s.fields = << >> /\ ~s.ws

\* strings.Fields
Fields(s) == s.fields

\* s == "" || len(strings.Fields(s)) > 1
InvalidParam(s) == IsEmpty(s) \/ Len(Fields(s)) > 1

NodeURLs == { Str(<< >>, FALSE), Str(<< >>, TRUE), Str(<< "a", "b" >>, TRUE),
              Str(<< "h:6869" >>, FALSE), Str(<< "http://h" >>, FALSE),
              Str(<< "https://h" >>, FALSE),
              Str(<< "ftp://h" >>, FALSE), Str(<< "http://%zz" >>, FALSE) }

SecretKeys == { Str(<< >>, FALSE), Str(<< "K1" >>, TRUE), Str(<< "a", "b" >>, TRUE),
                Str(<< "bad" >>, FALSE), Str(<< "K1" >>, FALSE) }

PublicKeys == { Str(<< >>, FALSE), Str(<< "a", "b" >>, TRUE),
                Str(<< "bad" >>, FALSE), Str(<< "K2" >>, FALSE) }

\* url.Parse as nodeClient uses it: the scheme of the parsed URL, "" when the
\* text names none, "error" when it does not parse
UrlScheme(s) ==
    IF s.ws \/ Len(s.fields) # 1 THEN "error"
    ELSE CASE s.fields[1] = "h:6869" -> ""
           [] s.fields[1] = "http://h" -> "http"
           [] s.fields[1] = "https://h" -> "https"
           [] s.fields[1] = "ftp://h" -> "ftp"
           [] OTHER -> "error"

\* base58 decoding of a 32-byte key: the key, 0 when the text is no such key
Base58Key(s) ==
    IF s.ws \/ Len(s.fields) # 1 THEN 0
    ELSE CASE s.fields[1] = "K1" -> 1
           [] s.fields[1] = "K2" -> 2
           [] OTHER -> 0

\* crypto.GeneratePublicKey
GeneratePublicKey(k) == k + 10

\* proto.NewAddressFromPublicKey
NewAddressFromPublicKey(s, k) == [scheme |-> s, pk |-> k]

NoAddress == [scheme |-> 0, pk |-> 0]

\* scheme bytes the last block's generator address can carry ('T', 'W')
Schemes == { 84, 87 }

\* ------------------------------------------------------------ leases

LeaseIds == 1 .. MaxLeases

\* what the node can answer to the active-lease query: lease transactions
\* of distinct ids
LeaseLists ==
    { ls \in UNION { [1 .. n -> [id : LeaseIds]] : n \in 0 .. MaxLeases } :
        \A a, b \in DOMAIN ls : a # b => ls[a] # ls[b] }

\* ------------------------------------------------------------- state

VARIABLES
    flags,      \* the command line: nodeURL, accountSK, accountPK, dryRun, showHelp,
                \* showVersion
    pc,         \* where the run stands
    ctx,        \* the context of interruptListener: "none", "active", "cancelled"
    scheme,     \* scheme byte, 0 before getScheme
    sk,         \* secret key, 0 before parseSK
    pk,         \* sender public key, 0 before parseSK
    addr,       \* account address, NoAddress before parseSK
    active,     \* the node's answer to the active-lease query
    leasings,   \* lease ids returned by getActiveLeasings
    leaseExtraFee, \* the surcharge returned by getExtraFee
    fee,        \* fee of every cancellation
    i,          \* index of the range loop over leasings (1-based)
    cancel,     \* the transactions built by the loop, in order, with their proofs
    printed,    \* the transactions a dry run printed
    calls,      \* the requests sent to the node, in order, each with its outcome
    tracked,    \* the transaction ids track was entered for
    confirmed,  \* the transaction ids track saw reported with HTTP 200
    polls,      \* status queries sent for the current transaction
    cause,      \* the step that ended the run and how
    retErr,     \* what run returned
    reported,   \* the count of the final log line, -1 before it
    exitCode    \* the status the process ended with, -1 while it runs

vars == << flags, pc, ctx, scheme, sk, pk, addr, active, leasings, leaseExtraFee, fee, i,
           cancel, printed,
           calls, tracked, confirmed, polls, cause, retErr, reported, exitCode >>

identity == << scheme, sk, pk, addr >>
work == << active, leasings, leaseExtraFee, fee, i, cancel, printed, tracked, confirmed,
          polls, reported >>

Init ==
    /\ flags \in [ nodeURL : NodeURLs, accountSK : SecretKeys, accountPK : PublicKeys,
                   dryRun : BOOLEAN, showHelp : BOOLEAN, showVersion : BOOLEAN ]
    /\ pc = "flags"
    /\ ctx = "none"
    /\ scheme = 0
    /\ sk = 0
    /\ pk = 0
    /\ addr = NoAddress
    /\ active = << >>
    /\ leasings = << >>
    /\ leaseExtraFee = U64(0)
    /\ fee = U64(0)
    /\ i = 0
    /\ cancel = << >>
    /\ printed = << >>
    /\ calls = << >>
    /\ tracked = << >>
    /\ confirmed = << >>
    /\ polls = 0
    /\ cause = [step |-> "none", how |-> "none"]
    /\ retErr = errNil
    /\ reported = -1
    /\ exitCode = -1

\* ------------------------------------------------------------ helpers

\* return err from run, at step, because of how
Return(err, step, how) ==
    /\ pc' = "returned"
    /\ retErr' = err
    /\ cause' = [step |-> step, how |-> how]

ErrOfRaw(outcome) == IF outcome = "canceled" THEN "context canceled" ELSE errFailure

\* the error run returns for a failed node call: context.Canceled is user
\* termination, anything else an operation failure
ErrOf(outcome) == IF outcome = "canceled" THEN errUserTermination ELSE errFailure

\* what a node call can come back with: "ok" (HTTP 200), "status" (a response
\* with another status), "neterr" (no response at all), and context.Canceled
\* once the context is cancelled
Outcomes == { "ok", "status", "neterr" } \cup (IF ctx = "cancelled" THEN { "canceled" } ELSE { })

\* a node call made on a cancelled context sends nothing and fails with
\* context.Canceled; otherwise the request goes out and the run waits at `wait`
StartCall(cancelled, request, step, wait) ==
    IF cancelled
    THEN /\ Return(errUserTermination, step, "canceled")
         /\ UNCHANGED calls
    ELSE /\ calls' = Append(calls, [request EXCEPT !.outcome = "pending"])
         /\ pc' = wait
         /\ UNCHANGED << retErr, cause >>

\* the request in flight comes back with outcome o
Answered(o) == [calls EXCEPT ![Len(calls)].outcome = o]

\* ------------------------------------------------------------ actions

\* flag handling and validation at the top of run
ParseFlags ==
    /\ pc = "flags"
    /\ IF flags.showHelp THEN Return(errNil, "flags", "help")
       ELSE IF flags.showVersion THEN Return(errNil, "flags", "version")
       ELSE IF InvalidParam(flags.nodeURL) THEN Return(errInvalidParameters, "flags", "nodeURL")
       ELSE IF InvalidParam(flags.accountSK) THEN Return(errInvalidParameters, "flags", "accountSK")
       ELSE /\ pc' = "listen"
            /\ UNCHANGED << retErr, cause >>
    /\ UNCHANGED << flags, ctx, identity, work, calls, exitCode >>

\* ctx := interruptListener()
InterruptListener ==
    /\ pc = "listen"
    /\ ctx' = "active"
    /\ pc' = "nodeClient"
    /\ UNCHANGED << flags, identity, work, calls, cause, retErr, exitCode >>

\* the operator's interrupt: the listener cancels the context
Interrupt ==
    /\ ctx = "active"
    /\ pc \notin { "returned", "exited" }
    /\ ctx' = "cancelled"
    /\ UNCHANGED << flags, pc, identity, work, calls, cause, retErr, exitCode >>

ProbeFailedNever(outcome) == FALSE

\* err != nil after nodeClient
ProbeFailed(outcome) == outcome # "ok"

\* nodeClient up to the height request
NodeClientStart ==
    /\ pc = "nodeClient"
    /\ IF UrlScheme(flags.nodeURL) = "error"
       THEN Return(errFailure, "nodeClient", "url") /\ UNCHANGED calls
       ELSE IF UrlScheme(flags.nodeURL) \notin { "", "http", "https" }
       THEN Return(errFailure, "nodeClient", "scheme") /\ UNCHANGED calls
       ELSE StartCall(ctx = "cancelled", [kind |-> "height", outcome |-> ""],
                      "nodeClient", "height")
    /\ UNCHANGED << flags, ctx, identity, work, exitCode >>

\* the height request returns
NodeClientReturn ==
    /\ pc = "height"
    /\ \E o \in Outcomes :
          /\ calls' = Answered(o)
          /\ IF ProbeFailed(o)
             THEN Return(ErrOf(o), "nodeClient", o)
             ELSE pc' = "getScheme" /\ UNCHANGED << retErr, cause >>
    /\ UNCHANGED << flags, ctx, identity, work, exitCode >>

\* getScheme up to the last-block request
GetSchemeStart ==
    /\ pc = "getScheme"
    /\ StartCall(ctx = "cancelled", [kind |-> "last", outcome |-> ""], "getScheme", "last")
    /\ UNCHANGED << flags, ctx, identity, work, exitCode >>

\* the last-block request returns; the scheme is the second byte of the
\* generator's address
GetSchemeReturn ==
    /\ pc = "last"
    /\ \E o \in Outcomes :
          /\ calls' = Answered(o)
          /\ IF o # "ok"
             THEN Return(ErrOf(o), "getScheme", o) /\ UNCHANGED scheme
             ELSE /\ \E s \in Schemes : scheme' = s
                  /\ pc' = "parseSK"
                  /\ UNCHANGED << retErr, cause >>
    /\ UNCHANGED << flags, ctx, sk, pk, addr, work, exitCode >>

OverrideNever(s) == FALSE

\* accountPK != "": a public key override is given
Override(s) == ~IsEmpty(s)

\* parseSK, then the public key override. Hashing a public key into an address
\* does not fail, so the two error returns after NewAddressFromPublicKey are
\* never taken.
ParseKeys ==
    /\ pc = "parseSK"
    /\ LET key == Base58Key(flags.accountSK)
           over == Base58Key(flags.accountPK)
       IN IF key = 0
          THEN Return(errFailure, "parseSK", "secret key") /\ UNCHANGED << sk, pk, addr >>
          ELSE IF ~Override(flags.accountPK)
          THEN /\ sk' = key
               /\ pk' = GeneratePublicKey(key)
               /\ addr' = NewAddressFromPublicKey(scheme, GeneratePublicKey(key))
               /\ pc' = "getActiveLeasings"
               /\ UNCHANGED << retErr, cause >>
          ELSE IF over = 0
          THEN /\ sk' = key
               /\ pk' = 0
               /\ addr' = NewAddressFromPublicKey(scheme, GeneratePublicKey(key))
               /\ Return(errFailure, "parseSK", "public key")
          ELSE /\ sk' = key
               /\ pk' = over
               /\ addr' = NewAddressFromPublicKey(scheme, over)
               /\ pc' = "getActiveLeasings"
               /\ UNCHANGED << retErr, cause >>
    /\ UNCHANGED << flags, ctx, scheme, work, calls, exitCode >>

CopyIdsPadded(txs) == [k \in 1 .. Len(txs) + 1 |-> IF k <= Len(txs) THEN txs[k].id ELSE 0]

\* r := make([]crypto.Digest, len(txs)); r[i] = *txs[i].ID
CopyIds(txs) == [k \in 1 .. Len(txs) |-> txs[k].id]

\* getActiveLeasings up to the active-lease request
GetActiveLeasingsStart ==
    /\ pc = "getActiveLeasings"
    /\ StartCall(ctx = "cancelled", [kind |-> "active", addr |-> addr, outcome |-> ""],
                 "getActiveLeasings", "active")
    /\ UNCHANGED << flags, ctx, identity, work, exitCode >>

LeasesFailedNever(outcome) == FALSE

\* err != nil after getActiveLeasings
LeasesFailed(outcome) == outcome # "ok"

\* the active-lease request returns; the ids are copied in the node's order
GetActiveLeasingsReturn ==
    /\ pc = "active"
    /\ \E o \in Outcomes :
          /\ calls' = Answered(o)
          /\ IF LeasesFailed(o)
             THEN Return(ErrOf(o), "getActiveLeasings", o) /\ UNCHANGED << active, leasings >>
             ELSE /\ \E txs \in LeaseLists :
                       /\ active' = txs
                       /\ leasings' = CopyIds(txs)
                  /\ pc' = "getExtraFee"
                  /\ UNCHANGED << retErr, cause >>
    /\ UNCHANGED << flags, ctx, identity, leaseExtraFee, fee, i, cancel, printed, tracked,
                    confirmed, polls, reported, exitCode >>

\* getExtraFee up to the scriptInfo request
GetExtraFeeStart ==
    /\ pc = "getExtraFee"
    /\ StartCall(ctx = "cancelled", [kind |-> "scriptInfo", addr |-> addr, outcome |-> ""],
                 "getExtraFee", "scriptInfo")
    /\ UNCHANGED << flags, ctx, identity, work, exitCode >>

FeeFailedNever(outcome) == FALSE

\* err != nil after getExtraFee: the request failed or its status is not 200
FeeFailed(outcome) == outcome # "ok"

\* the scriptInfo request returns: a status other than 200 is an error; then
\* the fee is computed and the loop starts
GetExtraFeeReturn ==
    /\ pc = "scriptInfo"
    /\ \E o \in Outcomes :
          /\ calls' = Answered(o)
          /\ IF FeeFailed(o)
             THEN Return(ErrOf(o), "getExtraFee", o) /\ UNCHANGED << leaseExtraFee, fee, i >>
             ELSE /\ \E extra \in ExtraFees :
                       /\ leaseExtraFee' = extra
                       /\ fee' = Fee(extra)
                  /\ i' = 0
                  /\ pc' = "loop"
                  /\ UNCHANGED << retErr, cause >>
    /\ UNCHANGED << flags, ctx, identity, active, leasings, cancel, printed, tracked,
                    confirmed, polls, reported, exitCode >>

\* ------------------------------------------------------------ the loop

NoProof == [scheme |-> 0, sk |-> 0]

LeaseFirst(ls, k) == ls[1]

\* the lease of iteration k (0-based) of range leasings
LeaseAt(ls, k) == ls[k + 1]

NewUnsignedLeaseCancelMainNet(s, key, lease, f) ==
    [version |-> 2, scheme |-> 87, senderPK |-> key, leaseID |-> lease, fee |-> f,
     proof |-> NoProof]

\* proto.NewUnsignedLeaseCancelWithProofs(2, scheme, pk, lease, fee, timestamp())
NewUnsignedLeaseCancelWithProofs(s, key, lease, f) ==
    [version |-> 2, scheme |-> s, senderPK |-> key, leaseID |-> lease, fee |-> f,
     proof |-> NoProof]

\* cancel.Sign(scheme, sk): the proof is a signature by sk under scheme
Sign(tx, s, key) == [tx EXCEPT !.proof = [scheme |-> s, sk |-> key]]

\* cancel.ID: the hash of the unsigned body
TxID(tx) == [tx EXCEPT !.proof = NoProof]

SubmitAlways(dry) == "broadcast"

\* if dryRun { print } else { broadcast and track }
Submit(dry) == IF dry THEN "marshal" ELSE "broadcast"

\* the transaction of the current iteration
Current == cancel[Len(cancel)]

\* one iteration's build and sign
BuildAndSign ==
    /\ pc = "loop"
    /\ i < Len(leasings)
    /\ LET tx == NewUnsignedLeaseCancelWithProofs(scheme, pk, LeaseAt(leasings, i), fee)
       IN \E signed \in BOOLEAN :
             IF signed
             THEN /\ cancel' = Append(cancel, Sign(tx, scheme, sk))
                  /\ pc' = Submit(flags.dryRun)
                  /\ UNCHANGED << retErr, cause >>
             ELSE /\ cancel' = Append(cancel, tx)
                  /\ Return(errFailure, "sign", "error")
    /\ UNCHANGED << flags, ctx, identity, active, leasings, leaseExtraFee, fee, i, printed,
                    tracked, confirmed, polls,
                    reported, calls, exitCode >>

\* dry run: json.Marshal and print
DryPrint ==
    /\ pc = "marshal"
    /\ \E marshalled \in BOOLEAN :
          IF marshalled
          THEN /\ printed' = Append(printed, Current)
               /\ i' = i + 1
               /\ pc' = "loop"
               /\ UNCHANGED << retErr, cause >>
          ELSE /\ Return(errFailure, "marshal", "error")
               /\ UNCHANGED << printed, i >>
    /\ UNCHANGED << flags, ctx, identity, active, leasings, leaseExtraFee, fee, cancel,
                    tracked, confirmed, polls,
                    reported, calls, exitCode >>

\* the context broadcast hands to cl.Transactions.Broadcast is the listener's
BroadcastCtx(c) == c = "cancelled"

\* live run: the broadcast request
BroadcastStart ==
    /\ pc = "broadcast"
    /\ StartCall(BroadcastCtx(ctx), [kind |-> "broadcast", tx |-> Current, outcome |-> ""],
                 "broadcast", "broadcasting")
    /\ UNCHANGED << flags, ctx, identity, work, exitCode >>

AfterBroadcastNext == "next"

\* after a successful broadcast the run tracks the transaction
AfterBroadcast == "track"

BroadcastFailedNever(outcome) == FALSE

\* err != nil after broadcast
BroadcastFailed(outcome) == outcome # "ok"

\* the broadcast request returns; on success track is entered
BroadcastReturn ==
    /\ pc = "broadcasting"
    /\ \E o \in Outcomes :
          /\ calls' = Answered(o)
          /\ IF BroadcastFailed(o)
             THEN Return(ErrOf(o), "broadcast", o) /\ UNCHANGED << polls, i, tracked >>
             ELSE /\ polls' = 0
                  /\ IF AfterBroadcast = "track"
                     THEN /\ pc' = "track"
                          /\ tracked' = Append(tracked, TxID(Current))
                          /\ UNCHANGED i
                     ELSE /\ pc' = "loop"
                          /\ i' = i + 1
                          /\ UNCHANGED tracked
                  /\ UNCHANGED << retErr, cause >>
    /\ UNCHANGED << flags, ctx, identity, active, leasings, leaseExtraFee, fee, cancel, printed,
                    confirmed, reported, exitCode >>

TrackCtxBackground(c) == FALSE

\* the context track hands to cl.Transactions.Info is the listener's
TrackCtx(c) == c = "cancelled"

\* track: one status query of the poll
TrackStart ==
    /\ pc = "track"
    /\ StartCall(TrackCtx(ctx), [kind |-> "info", id |-> TxID(Current), outcome |-> ""],
                 "track", "info")
    /\ polls' = IF TrackCtx(ctx) THEN polls ELSE polls + 1
    /\ UNCHANGED << flags, ctx, identity, active, leasings, leaseExtraFee, fee, i, cancel,
                    printed, tracked,
                    confirmed, reported, exitCode >>

\* the status query returns. context.Canceled ends the poll; otherwise the
\* response's status is read: 200 ends the poll, another status leads to the
\* pause, and without a response (rsp is nil) the read is a nil pointer
\* dereference: the process panics.
TrackReturn ==
    /\ pc = "info"
    /\ \E o \in Outcomes :
        /\ calls' = Answered(o)
        /\ CASE o = "canceled" ->
                 /\ Return(errUserTermination, "track", "canceled")
                 /\ UNCHANGED << confirmed, i, exitCode >>
            [] o = "neterr" ->
                 /\ pc' = "exited"
                 /\ exitCode' = ExitCodes.panic
                 /\ cause' = [step |-> "track", how |-> "panic"]
                 /\ UNCHANGED << retErr, confirmed, i >>
            [] o = "ok" ->
                 /\ confirmed' = Append(confirmed, TxID(Current))
                 /\ i' = i + 1
                 /\ pc' = "loop"
                 /\ UNCHANGED << retErr, cause, exitCode >>
            [] o = "status" ->
                 /\ polls < MaxPolls
                 /\ pc' = "sleep"
                 /\ UNCHANGED << retErr, cause, confirmed, i, exitCode >>
    /\ UNCHANGED << flags, ctx, identity, active, leasings, leaseExtraFee, fee, cancel, printed,
                    tracked, polls, reported >>

\* time.Sleep(time.Second) runs to its end
SleepEnd ==
    /\ pc = "sleep"
    /\ pc' = "track"
    /\ UNCHANGED << flags, ctx, identity, work, calls, cause, retErr, exitCode >>

FinishErrOfContext(c) == IF c = "cancelled" THEN errUserTermination ELSE errNil

\* return nil at the end of run, whatever the context
FinishErr(c) == errNil

\* the loop is over: the final log lines and return nil
Finish ==
    /\ pc = "loop"
    /\ i >= Len(leasings)
    /\ reported' = Len(leasings)
    /\ Return(FinishErr(ctx), "run", "completed")
    /\ UNCHANGED << flags, ctx, identity, active, leasings, leaseExtraFee, fee, i, cancel,
                    printed, tracked,
                    confirmed, polls, calls, exitCode >>

\* the switch of main
ExitOf(err) ==
    CASE err = errNil -> ExitCodes.ok
      [] err = errInvalidParameters -> ExitCodes.invalid
      [] err = errUserTermination -> ExitCodes.terminated
      [] err = errFailure -> ExitCodes.failure
      [] OTHER -> ExitCodes.unclassified

\* main: map what run returned to the exit status
Main ==
    /\ pc = "returned"
    /\ exitCode' = ExitOf(retErr)
    /\ pc' = "exited"
    /\ UNCHANGED << flags, ctx, identity, work, calls, cause, retErr >>

Next ==
    \/ ParseFlags
    \/ InterruptListener
    \/ Interrupt
    \/ NodeClientStart
    \/ NodeClientReturn
    \/ GetSchemeStart
    \/ GetSchemeReturn
    \/ ParseKeys
    \/ GetActiveLeasingsStart
    \/ GetActiveLeasingsReturn
    \/ GetExtraFeeStart
    \/ GetExtraFeeReturn
    \/ BuildAndSign
    \/ DryPrint
    \/ BroadcastStart
    \/ BroadcastReturn
    \/ TrackStart
    \/ TrackReturn
    \/ SleepEnd
    \/ Finish
    \/ Main

Spec == Init /\ [][Next]_vars

\* ------------------------------------------------------------ observations

Range(q) == { q[k] : k \in DOMAIN q }

IsPrefix(a, b) == Len(a) <= Len(b) /\ \A k \in DOMAIN a : a[k] = b[k]

IsBroadcast(c) == c.kind = "broadcast"
IsInfo(c) == c.kind = "info"

\* the broadcast requests and the status queries sent so far, in order
Broadcasts == SelectSeq(calls, IsBroadcast)
Infos == SelectSeq(calls, IsInfo)

\* a request was sent in this step, and it is of one of `kinds`
Sends(kinds) == Len(calls') = Len(calls) + 1 /\ calls'[Len(calls')].kind \in kinds

Exited == pc = "exited"
Completed == Exited /\ cause.how = "completed"

\* ------------------------------------------------------------ C1

\* C1: in a dry run no broadcast request and no status query is ever sent,
\* whatever the leases and the node's answers; every signed transaction is
\* printed and nothing else: what was printed is a prefix of what was built,
\* and all of it whenever the loop is between two iterations.
C1_DryRunNeverSubmits ==
    flags.dryRun =>
        /\ Broadcasts = << >>
        /\ Infos = << >>
        /\ tracked = << >>
        /\ IsPrefix(printed, cancel)
        /\ (pc = "loop" \/ Completed) => printed = cancel

C1_Witness ==
    flags.dryRun /\ Completed /\ Len(leasings) >= 2 /\ Len(printed) = Len(leasings)

\* ------------------------------------------------------------ C2

\* the broadcast transactions the node has not yet reported as known
Unconfirmed == { b \in Range(Broadcasts) : TxID(b.tx) \notin Range(confirmed) }

\* C2: in a live run a broadcast request is sent only when every transaction
\* broadcast before it has been reported known by a status query (HTTP 200),
\* and at no moment are two broadcast transactions unconfirmed.
C2_BroadcastAfterConfirmation ==
    /\ [](Cardinality(Unconfirmed) <= 1)
    /\ [][Sends({ "broadcast" }) => Unconfirmed = { }]_vars

C2_Witness ==
    /\ pc = "broadcasting"
    /\ Len(Broadcasts) = 2
    /\ Len(confirmed) = 1
    /\ confirmed[1] = TxID(Broadcasts[1].tx)

\* ------------------------------------------------------------ C3

\* the lease ids in the order the node returned the leases
ReturnedIds == [k \in DOMAIN active |-> active[k].id]

\* the lease ids a sequence of transactions (or of their ids) cancels
LeasesOf(txs) == [k \in DOMAIN txs |-> txs[k].leaseID]

BroadcastTxs == [k \in DOMAIN Broadcasts |-> Broadcasts[k].tx]

\* C3: a live run that ends with success over N leases sent exactly N
\* broadcasts and entered the poll exactly N times, the k-th of each for the
\* transaction cancelling the k-th lease returned by the node; and in every
\* live run no lease's cancellation is broadcast twice.
C3_OncePerLeaseInOrder ==
    /\ (~flags.dryRun /\ Completed) =>
          /\ LeasesOf(BroadcastTxs) = ReturnedIds
          /\ LeasesOf(tracked) = ReturnedIds
          /\ \A k \in DOMAIN tracked : tracked[k] = TxID(BroadcastTxs[k])
    /\ \A a, b \in DOMAIN Broadcasts :
          a # b => Broadcasts[a].tx.leaseID # Broadcasts[b].tx.leaseID

C3_Witness ==
    ~flags.dryRun /\ Completed /\ Len(active) >= 2 /\ Len(Broadcasts) = Len(active)

\* ------------------------------------------------------------ C4

\* C4: once the context is cancelled no broadcast request and no status
\* query is sent any more.
C4_NoCallAfterCancellation ==
    [][ctx = "cancelled" => ~Sends({ "broadcast", "info" })]_vars

\* cancelled during the poll of the first of two leases: the run ended with
\* the second lease never broadcast
C4_Witness ==
    /\ Exited
    /\ ctx = "cancelled"
    /\ cause = [step |-> "track", how |-> "canceled"]
    /\ Len(leasings) = 2
    /\ Len(Broadcasts) = 1
    /\ Len(Infos) >= 1

\* ------------------------------------------------------------ C5

\* the run was ended by something other than its completion, a help or
\* version request, invalid parameters or a cancellation
OtherFailure ==
    cause.how \notin { "none", "completed", "help", "version", "nodeURL", "accountSK",
                       "canceled" }

\* C5: the exit status follows from how the run ended: 0 when it completed or
\* help or version was asked for, 2 when the node URL or the secret key is
\* empty or has several fields (and then no request was sent), 130 when a
\* network step ended with context.Canceled, 70 for every other failure.
C5_ExitCodeByOutcome ==
    Exited =>
        /\ cause.how \in { "completed", "help", "version" } => exitCode = 0
        /\ (~flags.showHelp /\ ~flags.showVersion
              /\ (InvalidParam(flags.nodeURL) \/ InvalidParam(flags.accountSK)))
             => (exitCode = 2 /\ calls = << >> /\ ctx = "none")
        /\ cause.how = "canceled" => exitCode = 130
        /\ OtherFailure => exitCode = 70

\* ------------------------------------------------------------ C6

\* the node answered the active-lease query with an empty list
FetchedNone ==
    \E k \in DOMAIN calls :
        calls[k].kind = "active" /\ calls[k].outcome = "ok" /\ active = << >>

\* C6 as stated: after an empty answer the run builds nothing, sends no
\* broadcast and no status query, and ends with success and a count of 0.
C6_EmptyListEndsWithSuccess ==
    FetchedNone =>
        /\ cancel = << >>
        /\ Broadcasts = << >>
        /\ Infos = << >>
        /\ Exited => (exitCode = 0 /\ reported = 0)

\* C6 amended: after an empty answer the run builds nothing and sends no
\* broadcast and no status query; it still makes the scriptInfo query, and it
\* ends with success and a count of 0 unless that query fails or is
\* cancelled, which ends it with 70 or 130 and no count.
C6_EmptyListBuildsNothing ==
    FetchedNone =>
        /\ cancel = << >>
        /\ Broadcasts = << >>
        /\ Infos = << >>
        /\ Exited =>
              \/ Completed /\ exitCode = 0 /\ reported = 0
              \/ /\ cause.step = "getExtraFee"
                 /\ exitCode \in { 70, 130 }
                 /\ reported = -1

C6_Witness == FetchedNone /\ Completed /\ exitCode = 0 /\ reported = 0

\* ------------------------------------------------------------ C7

\* the connectivity probe of nodeClient failed: the URL was refused, or the
\* height request was not sent or came back with an error
ProbeHasFailed ==
    \/ cause.step = "nodeClient"
    \/ calls # << >> /\ calls[1].outcome \notin { "pending", "ok" }

\* C7: when the probe fails the run ends with a failure outcome, having
\* derived no key and no address, sent no other request and built nothing.
C7_ProbeFailureStopsRun ==
    ProbeHasFailed =>
        /\ pc \in { "returned", "exited" }
        /\ retErr \in { errFailure, errUserTermination }
        /\ (cause.how # "canceled") => retErr = errFailure
        /\ sk = 0 /\ pk = 0 /\ addr = NoAddress
        /\ \A k \in DOMAIN calls : calls[k].kind = "height"
        /\ Len(calls) <= 1
        /\ cancel = << >> /\ printed = << >>

C7_Witness ==
    /\ Exited
    /\ calls # << >> /\ calls[1].outcome = "neterr"
    /\ exitCode = 70

\* ------------------------------------------------------------ C8

CallsOf(kind) == { k \in DOMAIN calls : calls[k].kind = kind }

\* C8: a run over N leases that no error or cancellation stops builds exactly
\* N cancellations, the k-th for the k-th lease the node returned; every
\* cancellation ever built carries the run's one fee and one scheme, which is
\* also the scheme of its signature and of the address; the scheme and the
\* fee are each asked for at most once.
C8_UniformTransactions ==
    /\ Cardinality(CallsOf("last")) <= 1
    /\ Cardinality(CallsOf("scriptInfo")) <= 1
    /\ \A k \in DOMAIN cancel :
          /\ cancel[k].fee = fee
          /\ cancel[k].scheme = scheme
          /\ cancel[k].scheme = addr.scheme
          /\ cancel[k].proof # NoProof => cancel[k].proof.scheme = scheme
    /\ Completed =>
          /\ Len(cancel) = Len(active)
          /\ LeasesOf(cancel) = ReturnedIds
          /\ \A k \in DOMAIN cancel : cancel[k].proof # NoProof

C8_Witness ==
    Completed /\ Len(active) >= 2 /\ Len(cancel) = Len(active) /\ scheme = 84

\* ------------------------------------------------------------ C9

\* the scriptInfo query has returned a surcharge
FeeComputed == \E k \in DOMAIN calls : calls[k].kind = "scriptInfo" /\ calls[k].outcome = "ok"

\* C9: the fee of the run, and of every cancellation, is the arithmetic sum
\* of the base fee and the surcharge, for every uint64 surcharge.
C9_FeeIsArithmeticSum ==
    FeeComputed =>
        /\ Widen(fee) = ArithSum(U64(standardFee), leaseExtraFee)
        /\ \A k \in DOMAIN cancel : cancel[k].fee = fee
        /\ leaseExtraFee = U64(0) => fee = U64(standardFee)

\* ------------------------------------------------------------ C10

\* keys and address are resolved
KeysResolved == pk # 0 /\ cause.step # "parseSK"

\* the public key the claim expects transactions to be sent from
ExpectedPK ==
    IF IsEmpty(flags.accountPK)
    THEN GeneratePublicKey(Base58Key(flags.accountSK))
    ELSE Base58Key(flags.accountPK)

\* C10: with a public key override the address of the active-lease and
\* scriptInfo queries is derived from the override and the scheme, and every
\* cancellation is sent from the override; without one both come from the key
\* derived from the secret key. Either way the secret key signs.
C10_OverrideSupersedesDerivedKey ==
    KeysResolved =>
        /\ pk = ExpectedPK
        /\ addr = [scheme |-> scheme, pk |-> ExpectedPK]
        /\ \A k \in CallsOf("active") \cup CallsOf("scriptInfo") :
              calls[k].addr = [scheme |-> scheme, pk |-> ExpectedPK]
        /\ \A k \in DOMAIN cancel :
              /\ cancel[k].senderPK = ExpectedPK
              /\ cancel[k].proof # NoProof =>
                    cancel[k].proof.sk = Base58Key(flags.accountSK)

C10_Witness ==
    /\ Completed
    /\ ~IsEmpty(flags.accountPK)
    /\ Len(cancel) >= 1
    /\ cancel[1].senderPK = 2
    /\ cancel[1].proof.sk = 1
    /\ CallsOf("scriptInfo") # { }

\* ------------------------------------------------------------ C11

\* C11: the poll ends in two ways only, by a status query answered with HTTP
\* 200 (the run goes on to the next lease) or by an observed cancellation (the
\* run ends with user termination). A status query that comes back otherwise,
\* with another status or with no response, is followed after the pause by a
\* status query for the same transaction id; the poll never ends the run with
\* an operation failure and never aborts it.
C11_PollEndsTwoWays ==
    /\ cause.step = "track" =>
          /\ cause.how = "canceled"
          /\ retErr = errUserTermination
          /\ exitCode \in { -1, 130 }
    /\ \A k \in DOMAIN calls :
          (calls[k].kind = "info" /\ calls[k].outcome \in { "status", "neterr" }) =>
              IF k < Len(calls)
              THEN calls[k + 1].kind = "info" /\ calls[k + 1].id = calls[k].id
              ELSE \/ pc \in { "sleep", "track" }
                   \/ cause = [step |-> "track", how |-> "canceled"]
    /\ \A k \in DOMAIN calls :
          (calls[k].kind = "info" /\ calls[k].outcome = "ok" /\ k < Len(calls)) =>
              calls[k + 1].kind = "broadcast"

\* ------------------------------------------------------------ C12

\* the pause of the poll ends because its one-second interval ran out: the
\* poll goes on to its next status query
PauseRanOut == pc = "sleep" /\ pc' = "track"

\* C12: when the context is cancelled while the poll pauses between two
\* status queries, the pause is left because of the cancellation, not because
\* the interval ran to its end.
C12_PauseInterruptedByCancellation ==
    [][(pc = "sleep" /\ ctx = "cancelled") => ~PauseRanOut]_vars

\* ------------------------------------------------------------ C13

\* the last broadcast request was rejected by the node or failed
LastBroadcastFailed ==
    /\ Broadcasts # << >>
    /\ Broadcasts[Len(Broadcasts)].outcome \in { "status", "neterr" }

\* C13: when the broadcast for the k-th lease fails the run stops with an
\* operation failure: the failed broadcast is the last request sent, no
\* status query is made for its transaction, nothing is built for a later
\* lease, and the k-1 earlier cancellations stay broadcast and confirmed.
C13_BroadcastFailureStopsRun ==
    LastBroadcastFailed =>
        LET n == Len(Broadcasts)
            failed == Broadcasts[n]
        IN /\ pc \in { "returned", "exited" }
           /\ retErr = errFailure
           /\ exitCode \in { -1, 70 }
           /\ cause.step = "broadcast"
           /\ calls[Len(calls)] = failed
           /\ \A k \in DOMAIN Infos : Infos[k].id # TxID(failed.tx)
           /\ Len(cancel) = n
           /\ cancel[n] = failed.tx
           /\ Len(confirmed) = n - 1
           /\ \A k \in 1 .. n - 1 :
                 /\ confirmed[k] = TxID(cancel[k])
                 /\ Broadcasts[k].outcome = "ok"

C13_Witness ==
    /\ Exited
    /\ exitCode = 70
    /\ Len(active) = 2
    /\ Len(Broadcasts) = 2
    /\ Broadcasts[2].outcome = "status"
    /\ Len(confirmed) = 1

\* ------------------------------------------------------------ C14

\* C14: only the status query is ever repeated. The height, last-block,
\* active-lease and scriptInfo requests are each sent at most once and a
\* broadcast at most once per lease; a failed request other than a status
\* query is the last request of the run, which has ended with an error.
C14_OnlyThePollRepeats ==
    /\ \A kind \in { "height", "last", "active", "scriptInfo" } :
          Cardinality(CallsOf(kind)) <= 1
    /\ \A a, b \in CallsOf("broadcast") :
          a # b => calls[a].tx.leaseID # calls[b].tx.leaseID
    /\ \A k \in DOMAIN calls :
          (calls[k].kind # "info" /\ calls[k].outcome \notin { "ok", "pending" }) =>
              /\ k = Len(calls)
              /\ pc \in { "returned", "exited" }
              /\ retErr \in { errFailure, errUserTermination }

\* the active-lease request failed and nothing followed it, after a run in
\* which nothing was asked twice
C14_Witness ==
    /\ Exited
    /\ Len(calls) = 3
    /\ calls[3].kind = "active"
    /\ calls[3].outcome = "neterr"
    /\ exitCode = 70

\* ------------------------------------------------------------ C15

\* the k-th request of the run was sent and came back with success
Succeeded(k, kind) ==
    Len(calls) >= k /\ calls[k].kind = kind /\ calls[k].outcome = "ok"

\* C15: the steps run in the order probe, scheme, keys and address, lease
\* fetch, fee fetch, then per lease build, sign and print or broadcast and
\* confirm, each only after all earlier ones succeeded. A request is the
\* k-th of the run exactly when it is the k-th step's and the earlier requests
\* succeeded; keys exist only after the scheme; transactions are built only
\* after the lease and the fee fetch succeeded, are signed before they are
\* broadcast and broadcast before they are polled; and a run ended by the
\* scheme fetch, the key parsing, the lease fetch or the fee fetch built and
\* broadcast nothing.
C15_StepsInOrder ==
    /\ \A k \in DOMAIN calls :
          /\ calls[k].kind = "height" <=> k = 1
          /\ calls[k].kind = "last" <=> k = 2
          /\ calls[k].kind = "active" <=> k = 3
          /\ calls[k].kind = "scriptInfo" <=> k = 4
          /\ k > 1 => calls[k - 1].outcome \in { "ok", "status" }
          /\ (k > 1 /\ calls[k - 1].outcome = "status") =>
                (calls[k - 1].kind = "info" /\ calls[k].kind = "info")
          /\ k > 2 => (pk # 0 /\ sk # 0 /\ addr # NoAddress)
          /\ calls[k].kind = "broadcast" =>
                /\ calls[k].tx \in Range(cancel)
                /\ calls[k].tx.proof # NoProof
          /\ calls[k].kind = "info" =>
                \E b \in 1 .. k - 1 :
                    /\ calls[b].kind = "broadcast"
                    /\ calls[b].outcome = "ok"
                    /\ TxID(calls[b].tx) = calls[k].id
    /\ scheme # 0 => Succeeded(1, "height") /\ Succeeded(2, "last")
    /\ (sk # 0 \/ pk # 0 \/ addr # NoAddress) => scheme # 0
    /\ (cancel # << >> \/ printed # << >>) =>
          (Succeeded(3, "active") /\ Succeeded(4, "scriptInfo"))
    /\ cause.step \in { "getScheme", "parseSK", "getActiveLeasings", "getExtraFee" } =>
          (cancel = << >> /\ printed = << >> /\ Broadcasts = << >>)

\* a live run that went through every step for two leases
C15_Witness ==
    /\ Completed
    /\ ~flags.dryRun
    /\ Len(active) = 2
    /\ Len(confirmed) = 2
    /\ Len(Infos) > 2

\* ------------------------------------------------------------ C16

\* broadcasts the node accepted whose transaction no status query has
\* reported known
AwaitingConfirmation ==
    { b \in Range(Broadcasts) : b.outcome = "ok" /\ TxID(b.tx) \notin Range(confirmed) }

\* C16: a live run leaves the confirmation poll only when the node reports
\* the transaction known or the context is cancelled: as long as an accepted
\* broadcast is not reported known and no cancellation is raised, the run is
\* still polling, so a run that has ended with an accepted broadcast still
\* awaiting confirmation was ended by cancellation observed in the poll.
C16_PollLeftOnlyConfirmedOrCancelled ==
    (AwaitingConfirmation # { } /\ pc \in { "returned", "exited" }) =>
        /\ ctx = "cancelled"
        /\ cause = [step |-> "track", how |-> "canceled"]
        /\ retErr = errUserTermination

\* ------------------------------------------------------------ C17

\* the steps of run that call the node
NodeCallSteps ==
    { "nodeClient", "getScheme", "getActiveLeasings", "getExtraFee", "broadcast", "track" }

\* nothing is left to ask the node: a dry run past the fee fetch, a live run
\* whose every lease is confirmed
NoCallLeft ==
    /\ FeeComputed
    /\ \/ flags.dryRun
       \/ /\ Len(confirmed) = Len(leasings)
          /\ pc \notin { "track", "sleep" }

\* C17: user termination is returned only for a node call that came back
\* with context.Canceled; once the run has no node call left (a dry run after
\* the fee fetch, a live run after the last confirmation) it never ends with
\* user termination and, unless signing or marshalling fails, ends with
\* success and exit status 0, whether or not the context is cancelled.
C17_CancellationSeenOnlyInNodeCalls ==
    /\ (retErr = errUserTermination \/ exitCode = ExitCodes.terminated) =>
          /\ cause.how = "canceled"
          /\ cause.step \in NodeCallSteps
          /\ ctx = "cancelled"
    /\ (NoCallLeft /\ pc \in { "returned", "exited" }) =>
          /\ retErr # errUserTermination
          /\ exitCode # ExitCodes.terminated
          /\ cause.step \notin { "sign", "marshal" } =>
                /\ retErr = errNil
                /\ cause.how = "completed"
                /\ exitCode \in { -1, ExitCodes.ok }
    /\ NoCallLeft => (retErr \in { errNil, errFailure } /\ cause.how # "canceled")

\* a dry run cancelled by the user that still printed its two transactions
\* and exited with 0
C17_Witness ==
    /\ Completed
    /\ flags.dryRun
    /\ ctx = "cancelled"
    /\ Len(printed) = 2
    /\ exitCode = ExitCodes.ok

\* ------------------------------------------------------------ C18

\* C18: run returns only nil or one of its three sentinels, so main's switch
\* never takes its default branch and the exit status is never 1; every
\* exit status main produces is the one of the sentinel returned.
C18_RunReturnsFourValues ==
    /\ retErr \in { errNil, errInvalidParameters, errUserTermination, errFailure }
    /\ exitCode # ExitCodes.unclassified
    /\ (Exited /\ cause.how # "panic") =>
          exitCode \in { ExitCodes.ok, ExitCodes.invalid, ExitCodes.terminated,
                         ExitCodes.failure }

\* a node call failed with context.Canceled and the process exited with 130
C18_Witness ==
    /\ Exited
    /\ cause = [step |-> "getActiveLeasings", how |-> "canceled"]
    /\ retErr = errUserTermination
    /\ exitCode = ExitCodes.terminated

====
